---- MODULE Spec2Model ----
(***************************************************************************)
(* Model of provider/aws.go: the Route53 provider of external-dns.         *)
(*                                                                         *)
(* Strings.  A Go string is modelled as a sequence.  Record names and zone *)
(* names are sequences of byte values, so that sort.Strings, the < of the  *)
(* sort comparator, strings.HasSuffix and the trailing dot are computed on *)
(* bytes as the code computes them.  Targets are sequences of text chunks  *)
(* (a region name and the ELB suffix are one chunk each), which is enough  *)
(* for strings.HasSuffix against the keys of canonicalHostedZones.  The    *)
(* action and record type of a change are the SDK's constants; Bytes gives *)
(* their byte sequences for the comparisons of the sort.                   *)
(*                                                                         *)
(* A nil pointer field is the empty sequence, a set one a one-element      *)
(* sequence.                                                               *)
(***************************************************************************)
EXTENDS Integers, Sequences, FiniteSets, TLC

VARIABLES
    \* ---- the provider and one call of its mutating API
    dryRun,          \* AWSProvider.dryRun
    domainFilter,    \* AWSProvider.domainFilter: a set of domain suffixes
    zoneTypeFilter,  \* AWSProvider.zoneTypeFilter: "", "public" or "private"
    maxCount,        \* the batch size handed to limitChangeSet
    pc,              \* position of the call: idle, zones, loop, done
    changes,         \* submitChanges' argument
    zones,           \* result of p.Zones(): zone id -> hosted zone
    byZone,          \* the local changesByZone of submitChanges
    pending,         \* keys of byZone the range loop has not visited yet
    logged,          \* zone id -> the "Desired change" lines logged for it
    calls,           \* ChangeResourceRecordSets calls received by the service
    rrsets,          \* record sets held by the service
    ret,             \* the call's return value: <<>> (running), <<"nil">>, <<"err">>
    listErr,         \* outcome of ListHostedZonesPages: "none" (not called), "ok", "error"
    \* ---- one call of limitChangeSet
    cs, limit, limCs,
    \* ---- one call of changesByZone
    zoneSet, changeSet, zoneChanges,
    \* ---- one call of newChanges
    action, endpoints, built,
    \* ---- whether the function under SpecLimit / SpecZones / SpecBuild returned
    called

applyVars == <<dryRun, domainFilter, zoneTypeFilter, maxCount, pc, changes,
               zones, byZone, pending, logged, calls, rrsets, ret, listErr>>
limitVars == <<cs, limit, limCs>>
zoneVars  == <<zoneSet, changeSet, zoneChanges>>
buildVars == <<action, endpoints, built>>
vars == <<applyVars, limitVars, zoneVars, buildVars, called>>

(***************************************************************************)
(* Bounds of the model.                                                    *)
(***************************************************************************)
MaxLen       == 3   \* longest change list given to limitChangeSet / changesByZone
MaxLimit     == 2   \* largest small limit tried (besides maxChangeCount)
MaxEndpoints == 2   \* longest endpoint list given to newChanges
MaxPlan      == 3   \* most endpoints in one call of the provider's API

(***************************************************************************)
(* Constants of aws.go.                                                    *)
(***************************************************************************)
elbHostnameSuffix    == ".elb.amazonaws.com"
evaluateTargetHealth == TRUE
recordTTL            == 300
maxChangeCount       == 4000

canonicalHostedZones ==
    [region \in {"us-east-1", "us-east-2", "us-west-1", "us-west-2", "ca-central-1",
                 "ap-south-1", "ap-northeast-2", "ap-southeast-1", "ap-southeast-2",
                 "ap-northeast-1", "eu-central-1", "eu-west-1", "eu-west-2",
                 "sa-east-1"} |->
        CASE region = "us-east-1"      -> "Z35SXDOTRQ7X7K"
          [] region = "us-east-2"      -> "Z3AADJGX6KTTL2"
          [] region = "us-west-1"      -> "Z368ELLRRE2KJ0"
          [] region = "us-west-2"      -> "Z1H1FL5HABSF5"
          [] region = "ca-central-1"   -> "ZQSVJUPU6J1EY"
          [] region = "ap-south-1"     -> "ZP97RAFLXTNZK"
          [] region = "ap-northeast-2" -> "ZWKZPGTI48KDX"
          [] region = "ap-southeast-1" -> "Z1LMS91P8CMLE5"
          [] region = "ap-southeast-2" -> "Z1GM3OXH4ZPM65"
          [] region = "ap-northeast-1" -> "Z14GRHDCWA56QT"
          [] region = "eu-central-1"   -> "Z215JYRZR1TBD5"
          [] region = "eu-west-1"      -> "Z32O12XQLNTSW2"
          [] region = "eu-west-2"      -> "ZHURV8PSTC4K8"
          [] region = "sa-east-1"      -> "Z2P70J7HTTTPLU"]

(***************************************************************************)
(* Strings.                                                                *)
(***************************************************************************)
\* strings.HasSuffix
HasSuffix(s, suffix) ==
    /\ Len(suffix) <= Len(s)
    /\ SubSeq(s, Len(s) - Len(suffix) + 1, Len(s)) = suffix

\* Go's a < b on strings: bytewise lexicographic order
StrLess(a, b) ==
    \E i \in 1..Len(b) :
        /\ i <= Len(a) + 1
        /\ \A j \in 1..(i - 1) : a[j] = b[j]
        /\ (i > Len(a) \/ a[i] < b[i])

\* The bytes of the SDK's action and record type constants
Bytes ==
    [CREATE |-> <<67, 82, 69, 65, 84, 69>>,
     DELETE |-> <<68, 69, 76, 69, 84, 69>>,
     UPSERT |-> <<85, 80, 83, 69, 82, 84>>,
     A      |-> <<65>>,
     CNAME  |-> <<67, 78, 65, 77, 69>>,
     TXT    |-> <<84, 88, 84>>]

\* sort.Strings on the keys of a map: the ascending sequence of a set of strings
RECURSIVE SortStrings(_)
SortStrings(S) ==
    IF S = {} THEN <<>>
    ELSE LET m == CHOOSE x \in S : \A y \in S : ~StrLess(y, x)
         IN  <<m>> \o SortStrings(S \ {m})

(***************************************************************************)
(* sortChangesByActionNameType: sort.SliceStable with the comparator of    *)
(* lines 293-307.                                                          *)
(***************************************************************************)
ChangeLess(ci, cj) ==
    IF StrLess(Bytes[ci.Action], Bytes[cj.Action]) THEN TRUE
    ELSE IF StrLess(Bytes[cj.Action], Bytes[ci.Action]) THEN FALSE
    ELSE IF StrLess(ci.Name, cj.Name) THEN TRUE
    ELSE IF StrLess(cj.Name, ci.Name) THEN FALSE
    ELSE StrLess(Bytes[ci.Type], Bytes[cj.Type])

\* a stable sort: each element goes behind the elements that are not greater
RECURSIVE StableInsert(_, _)
StableInsert(sorted, x) ==
    IF sorted = <<>> THEN <<x>>
    ELSE IF ChangeLess(x, Head(sorted)) THEN <<x>> \o sorted
    ELSE <<Head(sorted)>> \o StableInsert(Tail(sorted), x)

RECURSIVE StableSort(_)
StableSort(s) ==
    IF s = <<>> THEN <<>>
    ELSE StableInsert(StableSort(SubSeq(s, 1, Len(s) - 1)), s[Len(s)])

sortChangesByActionNameType(s) == StableSort(s)

(***************************************************************************)
(* limitChangeSet                                                          *)
(***************************************************************************)
\* lines 267-270: the map from record name to its changes, in input order
changesByName(s) ==
    [n \in {s[i].Name : i \in DOMAIN s} |->
        SelectSeq(s, LAMBDA v : v.Name = n)]

\* lines 278-284: the loop over the sorted names, from index i on
RECURSIVE LimitWalk(_, _, _, _, _)
LimitWalk(groups, names, lim, i, acc) ==
    IF i > Len(names) THEN acc
    ELSE LET group == groups[names[i]]
         IN  IF (lim - Len(acc)) >= Len(group)
             THEN LimitWalk(groups, names, lim, i + 1, acc \o group)
             ELSE LimitWalk(groups, names, lim, i + 1, acc)

\* faulty variant: the first group that overflows ends the walk
RECURSIVE LimitWalkBreak(_, _, _, _, _)
LimitWalkBreak(groups, names, lim, i, acc) ==
    IF i > Len(names) THEN acc
    ELSE LET group == groups[names[i]]
         IN  IF (lim - Len(acc)) >= Len(group)
             THEN LimitWalkBreak(groups, names, lim, i + 1, acc \o group)
             ELSE acc

\* faulty variant: the walk stops at the limit in the middle of a group
limitChangeSetTruncate(s, lim) ==
    IF Len(s) <= lim THEN s
    ELSE sortChangesByActionNameType(SubSeq(s, 1, lim))

\* faulty variant: a group is taken while there is any room left
RECURSIVE LimitWalkAnyRoom(_, _, _, _, _)
LimitWalkAnyRoom(groups, names, lim, i, acc) ==
    IF i > Len(names) THEN acc
    ELSE LET group == groups[names[i]]
         IN  IF (lim - Len(acc)) >= 1
             THEN LimitWalkAnyRoom(groups, names, lim, i + 1, acc \o group)
             ELSE LimitWalkAnyRoom(groups, names, lim, i + 1, acc)

limitChangeSetAnyRoom(s, lim) ==
    IF Len(s) <= lim THEN s
    ELSE LET groups == changesByName(s)
         IN  sortChangesByActionNameType(
                 LimitWalkAnyRoom(groups, SortStrings(DOMAIN groups), lim, 1, <<>>))

limitChangeSetBreak(s, lim) ==
    IF Len(s) <= lim THEN s
    ELSE LET groups == changesByName(s)
         IN  sortChangesByActionNameType(
                 LimitWalkBreak(groups, SortStrings(DOMAIN groups), lim, 1, <<>>))

limitChangeSet(s, lim) ==
    IF Len(s) <= lim THEN s
    ELSE LET groups == changesByName(s)
         IN  sortChangesByActionNameType(
                 LimitWalk(groups, SortStrings(DOMAIN groups), lim, 1, <<>>))

(***************************************************************************)
(* newChange, newChanges, isAWSLoadBalancer, canonicalHostedZone           *)
(***************************************************************************)
\* endpoint.TTL.IsConfigured
IsConfigured(ttl) == ttl > 0

\* lines 399-407: the zone of a key of canonicalHostedZones that is a suffix of
\* the hostname, "" if there is none
canonicalHostedZone(hostname) ==
    LET matching == {r \in DOMAIN canonicalHostedZones :
                        HasSuffix(hostname, <<r, elbHostnameSuffix>>)}
    IN  IF matching = {} THEN ""
        ELSE canonicalHostedZones[CHOOSE r \in matching : TRUE]

\* faulty variant: any CNAME is taken for a load balancer
isAWSLoadBalancerAnyCNAME(ep) == ep.RecordType = "CNAME"

isAWSLoadBalancer(ep) ==
    IF ep.RecordType = "CNAME"
    THEN canonicalHostedZone(ep.Target) # ""
    ELSE FALSE

newChange(act, ep) ==
    IF isAWSLoadBalancer(ep)
    THEN [Action          |-> act,
          Name            |-> ep.DNSName,
          Type            |-> "A",
          TTL             |-> <<>>,
          ResourceRecords |-> <<>>,
          AliasTarget     |-> <<[DNSName              |-> ep.Target,
                                 HostedZoneId         |-> canonicalHostedZone(ep.Target),
                                 EvaluateTargetHealth |-> evaluateTargetHealth]>>]
    ELSE [Action          |-> act,
          Name            |-> ep.DNSName,
          Type            |-> ep.RecordType,
          TTL             |-> IF ~IsConfigured(ep.RecordTTL)
                              THEN <<recordTTL>>
                              ELSE <<ep.RecordTTL>>,
          ResourceRecords |-> <<[Value |-> ep.Target]>>,
          AliasTarget     |-> <<>>]

newChanges(act, eps) == [i \in 1..Len(eps) |-> newChange(act, eps[i])]

(***************************************************************************)
(* changesByZone, with zoneIDName and ensureTrailingDot                    *)
(***************************************************************************)
\* ensureTrailingDot: the hostname with exactly one "." (byte 46) at its end
ensureTrailingDot(hostname) ==
    IF hostname # <<>> /\ hostname[Len(hostname)] = 46
    THEN hostname
    ELSE hostname \o <<46>>

\* zoneIDName.FindZone: the id of the zone with the longest name that is a
\* suffix of the hostname, "" if no zone name is
FindZone(mapper, hostname) ==
    LET matching == {id \in DOMAIN mapper : HasSuffix(hostname, mapper[id])}
    IN  IF matching = {} THEN ""
        ELSE CHOOSE id \in matching :
                 \A other \in matching : Len(mapper[other]) <= Len(mapper[id])

\* lines 314-331: the buckets before the empty ones are removed
ZoneBuckets(zs, set) ==
    LET zoneNameIDMapper == [id \in DOMAIN zs |-> zs[id].Name]
    IN  [id \in DOMAIN zs |->
            SelectSeq(set, LAMBDA c :
                FindZone(zoneNameIDMapper, ensureTrailingDot(c.Name)) = id)]

\* faulty variant: the empty buckets stay
changesByZoneKeepEmpty(zs, set) == ZoneBuckets(zs, set)

changesByZone(zs, set) ==
    LET buckets == ZoneBuckets(zs, set)
    IN  [id \in {z \in DOMAIN buckets : Len(buckets[z]) # 0} |-> buckets[id]]

(***************************************************************************)
(* Inputs.                                                                 *)
(***************************************************************************)
SeqsUpTo(S, n) == UNION {[1..k -> S] : k \in 0..n}

\* the sequences that hold the elements of s in another order
Reorderings(s) ==
    {[i \in DOMAIN s |-> s[p[i]]] :
        p \in {q \in [DOMAIN s -> DOMAIN s] : \A i, j \in DOMAIN s : q[i] = q[j] => i = j}}

Endpoint(name, target, type, ttl) ==
    [DNSName |-> name, Target |-> target, RecordType |-> type, RecordTTL |-> ttl]

\* "a", "ab", "b"
LimitNames == {<<97>>, <<97, 98>>, <<98>>}

\* changes as newChange builds them, some of them equal in action, name and type
LimitChanges ==
    {newChange(act, Endpoint(n, tt[1], tt[2], 0)) :
        act \in {"CREATE", "DELETE"},
        n \in LimitNames,
        tt \in {<<(<<"1.2.3.4">>), "A">>, <<(<<"5.6.7.8">>), "A">>,
                 <<(<<"example.org">>), "CNAME">>}}

\* the values of the variables a specification does not use
ApplyUnused ==
    /\ dryRun = FALSE /\ domainFilter = {} /\ zoneTypeFilter = ""
    /\ maxCount = maxChangeCount /\ pc = "unused" /\ changes = <<>>
    /\ zones = <<>> /\ byZone = <<>> /\ pending = {} /\ logged = <<>>
    /\ calls = <<>> /\ rrsets = {} /\ ret = <<>> /\ listErr = "none"
LimitUnused == cs = <<>> /\ limit = 0 /\ limCs = <<>>
ZonesUnused == zoneSet = <<>> /\ changeSet = <<>> /\ zoneChanges = <<>>
BuildUnused == action = "" /\ endpoints = <<>> /\ built = <<>>

(***************************************************************************)
(* SpecLimit: one call limitChangeSet(cs, limit)                           *)
(***************************************************************************)
InitLimit ==
    /\ cs \in SeqsUpTo(LimitChanges, MaxLen)
    /\ limit \in 0..MaxLimit
    /\ limCs = <<>>
    /\ called = FALSE
    /\ ApplyUnused /\ ZonesUnused /\ BuildUnused

CallLimitChangeSet ==
    /\ ~called
    /\ limCs' = limitChangeSet(cs, limit)
    /\ called' = TRUE
    /\ UNCHANGED <<cs, limit, applyVars, zoneVars, buildVars>>

NextLimit == CallLimitChangeSet

SpecLimit == InitLimit /\ [][NextLimit]_vars

\* how often c occurs in s, and how many changes of s carry the record name n
Occurrences(s, c) == Cardinality({i \in DOMAIN s : s[i] = c})
NameCount(s, n)   == Cardinality({i \in DOMAIN s : s[i].Name = n})
NamesOf(s)        == {s[i].Name : i \in DOMAIN s}

\* C2: limitChangeSet keeps or drops the changes of a record name together: a
\* name that occurs in the output occurs there with every one of its input
\* changes, as often as in the input, and the output holds nothing else.
C2_GroupsAtomic ==
    called =>
        /\ \A i \in DOMAIN limCs :
               Occurrences(limCs, limCs[i]) <= Occurrences(cs, limCs[i])
        /\ \A n \in NamesOf(cs) :
               \/ NameCount(limCs, n) = 0
               \/ \A i \in DOMAIN cs :
                      cs[i].Name = n =>
                          Occurrences(limCs, cs[i]) = Occurrences(cs, cs[i])

\* C2 witness: an input over the limit of which one group of two changes was
\* kept whole and another group was dropped
C2_Witness ==
    /\ called
    /\ Len(cs) > limit
    /\ \E n, m \in NamesOf(cs) :
           /\ NameCount(cs, n) = 2 /\ NameCount(limCs, n) = 2
           /\ NameCount(limCs, m) = 0

\* C3 as stated: every reordering of the input gives the same output sequence
C3_OrderIndependent ==
    called => \A q \in Reorderings(cs) : limitChangeSet(q, limit) = limCs

\* the sizes of the groups of the names in S
RECURSIVE GroupSizes(_, _)
GroupSizes(s, S) ==
    IF S = {} THEN 0
    ELSE LET n == CHOOSE x \in S : TRUE
         IN  NameCount(s, n) + GroupSizes(s, S \ {n})

\* C9: over the limit, the group of a name is in the output exactly if it fits
\* into what the included groups of the smaller names leave of the limit.
C9_GreedySkipAndContinue ==
    (called /\ Len(cs) > limit) =>
        \A n \in NamesOf(cs) :
            LET before == {m \in NamesOf(cs) : StrLess(m, n) /\ NameCount(limCs, m) > 0}
            IN  NameCount(limCs, n) > 0
                    <=> NameCount(cs, n) <= limit - GroupSizes(cs, before)

\* C9 witness: a group that did not fit was skipped and the group of a greater
\* name was included after it
C9_Witness ==
    /\ called
    /\ Len(cs) > limit
    /\ \E m, n \in NamesOf(cs) :
           /\ StrLess(m, n)
           /\ NameCount(limCs, m) = 0
           /\ NameCount(limCs, n) > 0

(***************************************************************************)
(* SpecZones: one call changesByZone(zoneSet, changeSet)                   *)
(***************************************************************************)
HostedZone(id, name, private) == [Id |-> id, Name |-> name, Private |-> private]

\* the hosted zones "ex.", "s.ex." (a subdomain of the first) and "io."
AllZones ==
    {HostedZone("Z1", <<101, 120, 46>>, FALSE),
     HostedZone("Z2", <<115, 46, 101, 120, 46>>, TRUE),
     HostedZone("Z3", <<105, 111, 46>>, FALSE)}

\* a set of zones as Zones() returns it: zone id -> zone
ZoneMap(zs) == [id \in {z.Id : z \in zs} |-> CHOOSE z \in zs : z.Id = id]

\* "a.ex.", "a.ex", "a.s.ex.", "s.ex", "a.eu."
ZoneNames ==
    {<<97, 46, 101, 120, 46>>, <<97, 46, 101, 120>>, <<97, 46, 115, 46, 101, 120, 46>>,
     <<115, 46, 101, 120>>, <<97, 46, 101, 117, 46>>}

ZoneTestChanges ==
    {newChange(act, Endpoint(n, <<"1.2.3.4">>, "A", 0)) :
        act \in {"CREATE", "DELETE"}, n \in ZoneNames}

InitZones ==
    /\ zoneSet \in {ZoneMap(zs) : zs \in SUBSET AllZones}
    /\ changeSet \in SeqsUpTo(ZoneTestChanges, MaxLen)
    /\ zoneChanges = <<>>
    /\ called = FALSE
    /\ ApplyUnused /\ LimitUnused /\ BuildUnused

CallChangesByZone ==
    /\ ~called
    /\ zoneChanges' = changesByZone(zoneSet, changeSet)
    /\ called' = TRUE
    /\ UNCHANGED <<zoneSet, changeSet, applyVars, limitVars, buildVars>>

NextZones == CallChangesByZone

SpecZones == InitZones /\ [][NextZones]_vars

\* the zones of zs whose name is a suffix of the dot-terminated name of c, and
\* among them the one with the longest name
MatchingZones(zs, c) ==
    {id \in DOMAIN zs : HasSuffix(ensureTrailingDot(c.Name), zs[id].Name)}
LongestMatch(zs, c) ==
    CHOOSE id \in MatchingZones(zs, c) :
        \A other \in MatchingZones(zs, c) : Len(zs[other].Name) <= Len(zs[id].Name)

\* C7: changesByZone puts a change that matches a zone into the bucket of the
\* zone with the longest matching suffix and into no other, as often as it is
\* in the input; a change that matches no zone is in no bucket; the buckets
\* hold nothing else; and the keys are the zones that received a change, so
\* no bucket is empty.
C7_ZoneAssignment ==
    called =>
        /\ \A i \in DOMAIN changeSet :
               LET c == changeSet[i]
               IN  \A id \in DOMAIN zoneChanges :
                       Occurrences(zoneChanges[id], c) =
                           IF MatchingZones(zoneSet, c) # {} /\ LongestMatch(zoneSet, c) = id
                           THEN Occurrences(changeSet, c)
                           ELSE 0
        /\ \A id \in DOMAIN zoneChanges :
               /\ zoneChanges[id] # <<>>
               /\ \A k \in DOMAIN zoneChanges[id] :
                      Occurrences(changeSet, zoneChanges[id][k]) > 0
        /\ DOMAIN zoneChanges =
               {LongestMatch(zoneSet, changeSet[i]) :
                   i \in {j \in DOMAIN changeSet :
                              MatchingZones(zoneSet, changeSet[j]) # {}}}

\* C7 witness: a change that matches a zone and its subdomain zone is in the
\* bucket of the subdomain zone, another change matches no zone, and a zone
\* that received nothing has no bucket
C7_Witness ==
    /\ called
    /\ \E i \in DOMAIN changeSet :
           /\ MatchingZones(zoneSet, changeSet[i]) = {"Z1", "Z2"}
           /\ "Z2" \in DOMAIN zoneChanges
           /\ Occurrences(zoneChanges["Z2"], changeSet[i]) = 1
    /\ \E i \in DOMAIN changeSet : MatchingZones(zoneSet, changeSet[i]) = {}
    /\ "Z1" \notin DOMAIN zoneChanges

(***************************************************************************)
(* SpecBuild: one call newChanges(action, endpoints)                       *)
(***************************************************************************)
\* a literal address, a load balancer of us-east-1, a host that has the load
\* balancer suffix in its middle, a load balancer of a region not in the table
BuildTargets ==
    {<<"1.2.3.4">>,
     <<"lb-1.", "us-east-1", elbHostnameSuffix>>,
     <<"us-east-1", elbHostnameSuffix, ".example.org">>,
     <<"lb-2.", "eu-north-1", elbHostnameSuffix>>}

BuildEndpoints ==
    {Endpoint(n, t, ty, ttl) :
        n \in {<<97, 46, 101, 120, 46>>, <<97, 46, 101, 120>>},
        t \in BuildTargets,
        ty \in {"A", "CNAME", "TXT"},
        ttl \in {0, 60}}

InitBuild ==
    /\ action \in {"CREATE", "UPSERT", "DELETE"}
    /\ endpoints \in SeqsUpTo(BuildEndpoints, MaxEndpoints)
    /\ built = <<>>
    /\ called = FALSE
    /\ ApplyUnused /\ LimitUnused /\ ZonesUnused

CallNewChanges ==
    /\ ~called
    /\ built' = newChanges(action, endpoints)
    /\ called' = TRUE
    /\ UNCHANGED <<action, endpoints, applyVars, limitVars, zoneVars>>

NextBuild == CallNewChanges

SpecBuild == InitBuild /\ [][NextBuild]_vars

\* the regions whose load balancer suffix the target ends with
SuffixRegions(target) ==
    {r \in DOMAIN canonicalHostedZones : HasSuffix(target, <<r, elbHostnameSuffix>>)}

\* C8: newChanges gives one change per endpoint, in order, with the action
\* and the record name of the endpoint; the change is an A alias to the target
\* (zone of the matching suffix, target health evaluated, no value, no TTL)
\* exactly if the endpoint is a CNAME whose target ends with a load balancer
\* suffix, and else a literal record of the endpoint's type with the target
\* as its one value and the endpoint's TTL if configured, else 300.
C8_ChangeBuilding ==
    called =>
        /\ Len(built) = Len(endpoints)
        /\ \A i \in DOMAIN endpoints :
               LET ep == endpoints[i]
                   c  == built[i]
               IN  /\ c.Action = action
                   /\ c.Name = ep.DNSName
                   /\ IF ep.RecordType = "CNAME" /\ SuffixRegions(ep.Target) # {}
                      THEN /\ c.Type = "A"
                           /\ Len(c.AliasTarget) = 1
                           /\ c.AliasTarget[1].DNSName = ep.Target
                           /\ \A r \in SuffixRegions(ep.Target) :
                                  c.AliasTarget[1].HostedZoneId = canonicalHostedZones[r]
                           /\ c.AliasTarget[1].EvaluateTargetHealth = TRUE
                           /\ c.ResourceRecords = <<>>
                           /\ c.TTL = <<>>
                      ELSE /\ c.Type = ep.RecordType
                           /\ c.ResourceRecords = <<[Value |-> ep.Target]>>
                           /\ c.TTL = IF ep.RecordTTL > 0 THEN <<ep.RecordTTL>> ELSE <<300>>
                           /\ c.AliasTarget = <<>>

\* C8 witness: a load balancer CNAME became an alias and, behind it, a CNAME
\* to another host became a literal CNAME with its configured TTL
C8_Witness ==
    /\ called
    /\ Len(endpoints) = 2
    /\ endpoints[1].RecordType = "CNAME" /\ SuffixRegions(endpoints[1].Target) # {}
    /\ built[1].Type = "A" /\ built[1].AliasTarget # <<>>
    /\ endpoints[2].RecordType = "CNAME" /\ SuffixRegions(endpoints[2].Target) = {}
    /\ endpoints[2].RecordTTL = 60
    /\ built[2].Type = "CNAME" /\ built[2].TTL = <<60>>

(***************************************************************************)
(* Spec: the provider and one call of CreateRecords, UpdateRecords,        *)
(* DeleteRecords or ApplyChanges.  The call is cut at its requests to the  *)
(* service, whose outcome the service decides.                             *)
(***************************************************************************)
\* ZoneTypeFilter.Match
ZoneTypeMatch(filter, zone) ==
    CASE filter = "public"  -> ~zone.Private
      [] filter = "private" -> zone.Private
      [] OTHER              -> TRUE

\* DomainFilter.Match
DomainMatch(filters, name) ==
    filters = {} \/ \E f \in filters : HasSuffix(name, f)

\* lines 110-135: the hosted zones that pass both filters, by id
Zones(hosted) ==
    ZoneMap({z \in hosted : ZoneTypeMatch(zoneTypeFilter, z) /\ DomainMatch(domainFilter, z.Name)})

\* the filters a provider is built with: none, public zones only, "s.ex." only
ProviderFilters ==
    {[domain |-> {}, type |-> ""],
     [domain |-> {}, type |-> "public"],
     [domain |-> {<<115, 46, 101, 120, 46>>}, type |-> ""]}

\* the batch sizes tried: small ones and the one of aws.go
BatchSizes == (0..MaxLimit) \cup {maxChangeCount}

\* endpoints "a.ex.", "b.ex" and "a.s.ex."
PlanEndpoints ==
    {Endpoint(n, <<"1.2.3.4">>, "A", 0) :
        n \in {<<97, 46, 101, 120, 46>>, <<98, 46, 101, 120>>,
                <<97, 46, 115, 46, 101, 120, 46>>}}

\* the record sets of the service before the call
InitialRecordSets == {<<"Z1", <<97, 46, 101, 120, 46>>, "A">>}

\* the service applies an accepted batch change by change
RECURSIVE ApplyBatch(_, _, _)
ApplyBatch(zone, batch, sets) ==
    IF batch = <<>> THEN sets
    ELSE LET c   == Head(batch)
             key == <<zone, c.Name, c.Type>>
         IN  ApplyBatch(zone, Tail(batch),
                        IF c.Action = "DELETE" THEN sets \ {key} ELSE sets \cup {key})

\* line 238: one "Desired change" line per change of the limited set
LogLines(batch) ==
    [i \in DOMAIN batch |->
        [Action |-> batch[i].Action, Name |-> batch[i].Name, Type |-> batch[i].Type]]

Init ==
    /\ dryRun \in BOOLEAN
    /\ \E f \in ProviderFilters : domainFilter = f.domain /\ zoneTypeFilter = f.type
    /\ maxCount \in BatchSizes
    /\ pc = "idle" /\ changes = <<>>
    /\ zones = <<>> /\ byZone = <<>> /\ pending = {} /\ logged = <<>>
    /\ calls = <<>> /\ rrsets = InitialRecordSets /\ ret = <<>> /\ listErr = "none"
    /\ called = FALSE
    /\ LimitUnused /\ ZonesUnused /\ BuildUnused

\* lines 219-224: submitChanges up to its request for the zones
submitChanges(list) ==
    /\ pc = "idle"
    /\ changes' = list
    /\ IF Len(list) = 0
       THEN pc' = "done" /\ ret' = <<"nil">>
       ELSE pc' = "zones" /\ ret' = ret
    /\ UNCHANGED <<dryRun, domainFilter, zoneTypeFilter, maxCount, zones, byZone,
                   pending, logged, calls, rrsets, listErr,
                   limitVars, zoneVars, buildVars, called>>

CreateRecords ==
    /\ pc = "idle"
    /\ \E eps \in SeqsUpTo(PlanEndpoints, MaxPlan) :
           submitChanges(newChanges("CREATE", eps))

UpdateRecords ==
    /\ pc = "idle"
    /\ \E eps \in SeqsUpTo(PlanEndpoints, MaxPlan) :
           submitChanges(newChanges("UPSERT", eps))

DeleteRecords ==
    /\ pc = "idle"
    /\ \E eps \in SeqsUpTo(PlanEndpoints, MaxPlan) :
           submitChanges(newChanges("DELETE", eps))

ApplyChanges ==
    /\ pc = "idle"
    /\ \E nc \in 0..MaxPlan : \E nu \in 0..(MaxPlan - nc) : \E nd \in 0..(MaxPlan - nc - nu) :
           \E create \in [1..nc -> PlanEndpoints] :
               \E updateNew \in [1..nu -> PlanEndpoints] :
                   \E delete \in [1..nd -> PlanEndpoints] :
                       submitChanges(newChanges("CREATE", create)
                                         \o newChanges("UPSERT", updateNew)
                                         \o newChanges("DELETE", delete))

\* faulty variant: the error of the listing is dropped and the call goes on
\* with no zones
ZonesErrorIgnored ==
    /\ pc = "zones"
    /\ listErr' = "error"
    /\ ret' = <<"nil">>
    /\ pc' = "done"
    /\ UNCHANGED <<dryRun, domainFilter, zoneTypeFilter, maxCount, changes, zones,
                   byZone, pending, logged, calls, rrsets,
                   limitVars, zoneVars, buildVars, called>>

\* lines 226-229 with an error from ListHostedZonesPages
ZonesError ==
    /\ pc = "zones"
    /\ listErr' = "error"
    /\ ret' = <<"err">>
    /\ pc' = "done"
    /\ UNCHANGED <<dryRun, domainFilter, zoneTypeFilter, maxCount, changes, zones,
                   byZone, pending, logged, calls, rrsets,
                   limitVars, zoneVars, buildVars, called>>

\* lines 226-234: the zones are listed and the changes separated; the call
\* returns at once if no zone received a change
ZonesListed ==
    /\ pc = "zones"
    /\ listErr' = "ok"
    /\ zones' = Zones(AllZones)
    /\ byZone' = changesByZone(zones', changes)
    /\ pending' = DOMAIN byZone'
    /\ IF pending' = {}
       THEN pc' = "done" /\ ret' = <<"nil">>
       ELSE pc' = "loop" /\ ret' = ret
    /\ UNCHANGED <<dryRun, domainFilter, zoneTypeFilter, maxCount, changes,
                   logged, calls, rrsets, limitVars, zoneVars, buildVars, called>>

\* lines 234-257: one pass of the loop for zone z, which logs the limited
\* change set, sends it unless dryRun is set (sent says whether it is sent,
\* failed whether the service refuses it), and returns nil after the last zone
LoopPass(z, sent, failed) ==
    LET batch == limitChangeSet(byZone[z], maxCount)
    IN  /\ pc = "loop"
        /\ z \in pending
        /\ logged' = (z :> LogLines(batch)) @@ logged
        /\ calls' = IF sent
                    THEN Append(calls, [HostedZoneId |-> z, Changes |-> batch,
                                        Failed |-> failed])
                    ELSE calls
        /\ rrsets' = IF sent /\ ~failed THEN ApplyBatch(z, batch, rrsets) ELSE rrsets
        /\ pending' = pending \ {z}
        /\ IF pending' = {}
           THEN pc' = "done" /\ ret' = <<"nil">>
           ELSE pc' = "loop" /\ ret' = ret
        /\ UNCHANGED <<dryRun, domainFilter, zoneTypeFilter, maxCount, changes,
                       zones, byZone, listErr, limitVars, zoneVars, buildVars, called>>

\* faulty variant: dryRun is not looked at
DryRunPassSends == \E z \in pending : dryRun /\ LoopPass(z, TRUE, FALSE)

DryRunPass == \E z \in pending : dryRun /\ LoopPass(z, FALSE, FALSE)

SubmitSucceeds == \E z \in pending : ~dryRun /\ LoopPass(z, TRUE, FALSE)

\* faulty variant: the first refused batch ends the call with the error
SubmitFailsAborts ==
    \E z \in pending :
        LET batch == limitChangeSet(byZone[z], maxCount)
        IN  /\ pc = "loop"
            /\ ~dryRun
            /\ logged' = (z :> LogLines(batch)) @@ logged
            /\ calls' = Append(calls, [HostedZoneId |-> z, Changes |-> batch,
                                       Failed |-> TRUE])
            /\ pending' = {}
            /\ pc' = "done"
            /\ ret' = <<"err">>
            /\ UNCHANGED <<dryRun, domainFilter, zoneTypeFilter, maxCount, changes,
                           zones, byZone, rrsets, listErr,
                           limitVars, zoneVars, buildVars, called>>

SubmitFails == \E z \in pending : ~dryRun /\ LoopPass(z, TRUE, TRUE)

Next ==
    \/ CreateRecords
    \/ UpdateRecords
    \/ DeleteRecords
    \/ ApplyChanges
    \/ ZonesError
    \/ ZonesListed
    \/ DryRunPass
    \/ SubmitSucceeds
    \/ SubmitFails

Spec == Init /\ [][Next]_vars

\* how many ChangeResourceRecordSets calls the service received for zone z
CallsTo(z) == Cardinality({i \in DOMAIN calls : calls[i].HostedZoneId = z})

\* C1: the limited change set of a zone never has more than the limit's
\* number of changes, whatever the limit (0 included), so no batch the
\* service receives has more changes than the batch size, which is at most
\* maxChangeCount.
C1_LimitBound ==
    /\ maxCount <= maxChangeCount
    /\ \A z \in DOMAIN logged : Len(logged[z]) <= maxCount
    /\ \A i \in DOMAIN calls : Len(calls[i].Changes) <= maxCount

\* C1 witness: a zone received more changes than the batch size and the
\* service was sent a batch of exactly the batch size
C1_Witness ==
    \E i \in DOMAIN calls :
        /\ Len(byZone[calls[i].HostedZoneId]) > maxCount
        /\ maxCount > 0
        /\ Len(calls[i].Changes) = maxCount

\* C4: without dryRun and once the zones were listed, the service has
\* received exactly one call for every zone with changes that the loop has
\* passed and none for any other zone, whichever calls failed; the loop passes
\* every zone with changes, and the call returns nil.
C4_PartialFailureTolerant ==
    (~dryRun /\ listErr = "ok") =>
        /\ \A z \in {hz.Id : hz \in AllZones} :
               CallsTo(z) = IF z \in (DOMAIN byZone) \ pending THEN 1 ELSE 0
        /\ Len(calls) = Cardinality((DOMAIN byZone) \ pending)
        /\ pc = "done" => (pending = {} /\ ret = <<"nil">>)
        /\ pc = "loop" => (pending # {} /\ ret = <<>>)

\* C4 witness: two zones had changes, both calls failed, and nil was returned
C4_Witness ==
    /\ ~dryRun
    /\ pc = "done"
    /\ Len(calls) = 2
    /\ calls[1].Failed /\ calls[2].Failed
    /\ calls[1].HostedZoneId # calls[2].HostedZoneId
    /\ ret = <<"nil">>

\* C5: when the listing of the zones fails, the call is over, it returns the
\* error, and the service has received no batch and holds the record sets it
\* held before.
C5_ZoneListingFatal ==
    listErr = "error" =>
        /\ pc = "done"
        /\ ret = <<"err">>
        /\ calls = <<>>
        /\ rrsets = InitialRecordSets

\* C5 witness: a call with changes, without dryRun, whose listing failed
C5_Witness ==
    /\ listErr = "error"
    /\ ~dryRun
    /\ Len(changes) > 0
    /\ ret = <<"err">>

\* C6: with dryRun the service receives no ChangeResourceRecordSets call and
\* keeps its record sets, and the call returns nil once the zones were
\* listed; with or without dryRun the lines logged for a zone are those of its
\* limited change set, for every zone with changes by the end of the call.
C6_DryRun ==
    /\ dryRun =>
           /\ calls = <<>>
           /\ rrsets = InitialRecordSets
           /\ (pc = "done" /\ listErr = "ok") => ret = <<"nil">>
    /\ \A z \in DOMAIN logged :
           logged[z] = LogLines(limitChangeSet(byZone[z], maxCount))
    /\ listErr = "ok" => DOMAIN logged = (DOMAIN byZone) \ pending
    /\ (pc = "done" /\ listErr = "ok") => DOMAIN logged = DOMAIN byZone

\* C6 witness: a dry run that ended with nil after logging, for a zone with
\* more changes than the batch size, a limited change set that is not empty
C6_Witness ==
    /\ dryRun
    /\ pc = "done"
    /\ ret = <<"nil">>
    /\ calls = <<>>
    /\ \E z \in DOMAIN logged :
           /\ Len(byZone[z]) > maxCount
           /\ logged[z] # <<>>

\* C10 as stated, for the batch sizes of at least 1: every batch the service
\* receives holds at least one change
C10_NoEmptyBatch ==
    maxCount >= 1 => \A i \in DOMAIN calls : Len(calls[i].Changes) >= 1

====
